---- MODULE Spec2Model ----
(***************************************************************************)
(* Model of the ml-server of saas-iam-backend: the in-memory training job  *)
(* table (main.py), the background training task and the model store       *)
(* (ml_service.py) and the dataset store (data_service.py).                *)
(*                                                                         *)
(* Strings that take part in file names are sequences of characters, so    *)
(* that f"{tenant_id}_{id}.ext" is a real concatenation and startswith /   *)
(* endswith are real prefix / suffix tests.  progress is kept in tenths    *)
(* (0.1 is 1, 1.0 is 10).  uuid.uuid4() is a counter over a pool of        *)
(* pairwise distinct identifiers without "_" (uuid4 strings hold only hex  *)
(* digits and "-").  Each statement of train_model_task that reads or      *)
(* writes the job table or the file system is one step, so that a request  *)
(* handler may run between any two of them; the statements in between work *)
(* on the task's own values and belong to the step that follows them.      *)
(***************************************************************************)
EXTENDS Integers, Sequences, FiniteSets, TLC

VARIABLES training_jobs, requests, pc, local, models_dir, datasets_dir,
          uploads, response

vars == <<training_jobs, requests, pc, local, models_dir, datasets_dir,
          uploads, response>>

(* ------------------------------ bounds -------------------------------- *)
MaxJobs == 1
MaxUploads == 1
\* submissions in the specification of concurrent jobs
MaxConcurrentJobs == 2

(* ------------------------------ values -------------------------------- *)
NULL == "None"

\* None where a model id is expected (models.py 57, Optional[str] = None): ids are
\* sequences of characters and the absent id is the empty one
NoModelId == <<>>

\* the local df before pd.read_csv has returned (ml_service.py 44): frames are sets
\* of column names
NoFrame == {}

\* tenant identifiers issued to API keys (auth.py builds them as "tenant_<i>";
\* the key file may hold any string)
TenantT == <<"t">>
TenantT1 == <<"t", "_", "1">>
Tenants == {TenantT, TenantT1}

\* str(uuid.uuid4()): the k-th dataset id and the model id of the j-th job, pairwise
\* distinct and without "_"
DatasetUuid(k) == <<"d", CASE k = 1 -> "1" [] k = 2 -> "2" [] k = 3 -> "3" [] OTHER -> "4">>
\* model ids that are not fresh: every run draws the same id
ModelUuidShared(j) == <<"m", "1">>
ModelUuid(j) == <<"m", CASE j = 1 -> "1" [] j = 2 -> "2" [] j = 3 -> "3" [] OTHER -> "4">>

\* id strings a caller may put in a request: a generated id, and "1_<id>"
DatasetIds == {DatasetUuid(1), <<"1", "_">> \o DatasetUuid(1)}
ModelIds == {ModelUuid(1), <<"1", "_">> \o ModelUuid(1)}

ModelTypes == {"classification", "regression", "clustering", "custom"}

\* ColumnDefinition: name, data_type, is_target, is_feature
Col(n, t, f) == [name |-> n, data_type |-> "numeric", is_target |-> t, is_feature |-> f]

\* column schemas of training requests: a target that is also marked feature,
\* no target, a target and no other feature, a feature switched off, two targets
Schemas == {
    <<Col("x", FALSE, TRUE), Col("y", TRUE, TRUE)>>,
    <<Col("x", FALSE, TRUE), Col("y", FALSE, TRUE)>>,
    <<Col("y", TRUE, TRUE)>>,
    <<Col("x", FALSE, FALSE), Col("y", TRUE, FALSE)>>,
    <<Col("x", TRUE, TRUE), Col("y", TRUE, TRUE)>> }

\* the columns of an uploaded table
DatasetContents == {{"x", "y"}, {"x"}}

(* ----------------------------- file names ----------------------------- *)
StartsWith(s, p) == Len(s) >= Len(p) /\ SubSeq(s, 1, Len(p)) = p
EndsWith(s, p) == Len(s) >= Len(p) /\ SubSeq(s, Len(s) - Len(p) + 1, Len(s)) = p

MetadataSuffix == <<"_", "metadata", ".json">>

ModelPath(tenant_id, model_id) == tenant_id \o <<"_">> \o model_id \o <<".joblib">>
ModelMetadataPath(tenant_id, model_id) == tenant_id \o <<"_">> \o model_id \o MetadataSuffix
DatasetPath(tenant_id, dataset_id) == tenant_id \o <<"_">> \o dataset_id \o <<".csv">>
DatasetMetadataPath(tenant_id, dataset_id) == tenant_id \o <<"_">> \o dataset_id \o MetadataSuffix

Exists(dir, path) == path \in DOMAIN dir
WriteFile(dir, path, content) == [p \in DOMAIN dir \cup {path} |-> IF p = path THEN content ELSE dir[p]]
\* an os.remove that returns without removing
RemoveFileKeeps(dir, path) == dir
RemoveFile(dir, path) == [p \in DOMAIN dir \ {path} |-> dir[p]]

(* ------------------------------ requests ------------------------------ *)
\* bodies of POST /train: a well-formed body, and every body that departs from it
\* in one field (train_model_task looks at the fields one after the other)
BaseBody == [dataset_id |-> DatasetUuid(1), model_type |-> "classification",
             columns |-> <<Col("x", FALSE, TRUE), Col("y", TRUE, TRUE)>>,
             config_ok |-> TRUE]

Bodies ==
    {[BaseBody EXCEPT !.dataset_id = d] : d \in DatasetIds}
    \cup {[BaseBody EXCEPT !.model_type = m] : m \in ModelTypes}
    \cup {[BaseBody EXCEPT !.columns = c] : c \in Schemas}
    \cup {[BaseBody EXCEPT !.config_ok = b] : b \in BOOLEAN}

TrainingRequests == {[tenant_id |-> t] @@ b : t \in Tenants, b \in Bodies}

\* response: the HTTP response (or service result) of the step just taken; a step of
\* a background task sends none
NoResponse == [op |-> "none"]

(* ------------------------------- Init --------------------------------- *)
Init ==
    /\ training_jobs = <<>>
    /\ requests = <<>>
    /\ pc = <<>>
    /\ local = <<>>
    /\ models_dir = <<>>
    /\ datasets_dir = <<>>
    /\ uploads = 0
    /\ response = NoResponse

(* --------------------------- main.py: /train -------------------------- *)
\* the job record train_model stores under a fresh job id (main.py 79-88);
\* the key "model_id" is absent until the task adds it (NoModelId here)
NewJob(job_id, tenant_id) ==
    [training_job_id |-> job_id, tenant_id |-> tenant_id, status |-> "queued",
     start_time |-> "now", end_time |-> NULL, progress |-> 0, metrics |-> {},
     error_message |-> NULL, model_id |-> NoModelId]

TrainingResponse(job_id, tenant_id) ==
    [code |-> 200, model_id |-> "pending", tenant_id |-> tenant_id, status |-> "queued",
     training_job_id |-> job_id]

NoLocal == [df |-> NoFrame, model_id |-> NoModelId, metrics |-> {}, exc |-> NULL]

\* a POST /train that creates the job before it compares the tenants
train_modelNoTenantCheck(auth, request) ==
    /\ Len(training_jobs) < MaxJobs
    /\ LET job_id == Len(training_jobs) + 1 IN
       /\ training_jobs' = Append(training_jobs, NewJob(job_id, auth))
       /\ requests' = Append(requests, request)
       /\ pc' = Append(pc, "queued")
       /\ local' = Append(local, NoLocal)
       /\ response' = IF request.tenant_id # auth THEN [op |-> "train", code |-> 403]
                      ELSE [op |-> "train"] @@ TrainingResponse(job_id, auth)
    /\ UNCHANGED <<models_dir, datasets_dir, uploads>>

\* POST /train with the authenticated tenant auth and the request body request, in
\* a run of the service that receives at most max_jobs submissions
train_model_within(max_jobs, auth, request) ==
    /\ Len(training_jobs) < max_jobs
    /\ IF request.tenant_id # auth
       THEN /\ response' = [op |-> "train", code |-> 403]
            /\ UNCHANGED <<training_jobs, requests, pc, local>>
       ELSE LET job_id == Len(training_jobs) + 1 IN
            /\ training_jobs' = Append(training_jobs, NewJob(job_id, auth))
            /\ requests' = Append(requests, request)
            /\ pc' = Append(pc, "queued")
            /\ local' = Append(local, NoLocal)
            /\ response' = [op |-> "train"] @@ TrainingResponse(job_id, auth)
    /\ UNCHANGED <<models_dir, datasets_dir, uploads>>

train_model(auth, request) == train_model_within(MaxJobs, auth, request)

(* ------------------- ml_service.py: train_model_task ------------------ *)
Jobs == 1..Len(training_jobs)

\* an assignment that stores a new record holding only the assigned field
SetFieldReplaces(job_id, field, value) ==
    training_jobs' = [training_jobs EXCEPT
                         ![job_id] = [NewJob(job_id, training_jobs[job_id].tenant_id)
                                         EXCEPT ![field] = value]]

SetField(job_id, field, value) ==
    training_jobs' = [training_jobs EXCEPT ![job_id][field] = value]

Goto(job_id, label) == pc' = [pc EXCEPT ![job_id] = label]

\* an exception that no handler catches: the task ends where it raised
RaiseUncaught(job_id, message) ==
    /\ local' = [local EXCEPT ![job_id].exc = message]
    /\ Goto(job_id, "done")

\* an exception leaves the try block for the handler at line 177
Raise(job_id, message) ==
    /\ local' = [local EXCEPT ![job_id].exc = message]
    /\ Goto(job_id, "L179")

\* a checkpoint written as 0.07 for 0.7
ProgressAtTypo(line) ==
    CASE line = "L37" -> 1 [] line = "L45" -> 2 [] line = "L64" -> 3 [] line = "L105" -> 4
      [] line = "L112" -> 0 [] line = "L128" -> 8 [] line = "L169" -> 10

\* the value written to training_jobs[job_id]["progress"] at each checkpoint,
\* in tenths: lines 37, 45, 64, 105, 112, 128 and 169
ProgressAt(line) ==
    CASE line = "L37" -> 1 [] line = "L45" -> 2 [] line = "L64" -> 3 [] line = "L105" -> 4
      [] line = "L112" -> 7 [] line = "L128" -> 8 [] line = "L169" -> 10

SetProgress(job_id, line) == SetField(job_id, "progress", ProgressAt(line))

\* a task that is run again after it has ended
SetInProgressRerun(j) ==
    /\ response' = NoResponse
    /\ pc[j] \in {"queued", "done"}
    /\ SetField(j, "status", "in_progress")
    /\ Goto(j, "L37")
    /\ UNCHANGED <<requests, local, models_dir, datasets_dir, uploads>>

\* line 36
SetInProgress(j) ==
    /\ response' = NoResponse
    /\ pc[j] = "queued"
    /\ SetField(j, "status", "in_progress")
    /\ Goto(j, "L37")
    /\ UNCHANGED <<requests, local, models_dir, datasets_dir, uploads>>

\* line 37
Progress37(j) ==
    /\ response' = NoResponse
    /\ pc[j] = "L37"
    /\ SetProgress(j, "L37")
    /\ Goto(j, "L41")
    /\ UNCHANGED <<requests, local, models_dir, datasets_dir, uploads>>

\* lines 40-42
CheckDataset(j) ==
    /\ response' = NoResponse
    /\ pc[j] = "L41"
    /\ IF Exists(datasets_dir, DatasetPath(requests[j].tenant_id, requests[j].dataset_id))
       THEN Goto(j, "L44") /\ UNCHANGED local
       ELSE Raise(j, "Dataset not found")
    /\ UNCHANGED <<training_jobs, requests, models_dir, datasets_dir, uploads>>

\* line 44: pd.read_csv raises when the file has gone since line 41
ReadDataset(j) ==
    /\ response' = NoResponse
    /\ pc[j] = "L44"
    /\ LET path == DatasetPath(requests[j].tenant_id, requests[j].dataset_id) IN
       IF Exists(datasets_dir, path)
       THEN /\ local' = [local EXCEPT ![j].df = datasets_dir[path].columns]
            /\ Goto(j, "L45")
       ELSE Raise(j, "No such file or directory")
    /\ UNCHANGED <<training_jobs, requests, models_dir, datasets_dir, uploads>>

\* line 45
Progress45(j) ==
    /\ response' = NoResponse
    /\ pc[j] = "L45"
    /\ SetProgress(j, "L45")
    /\ Goto(j, "L48")
    /\ UNCHANGED <<requests, local, models_dir, datasets_dir, uploads>>

\* line 48: next((c.name for c in request.columns if c.is_target), None)
TargetCol(columns) ==
    LET targets == SelectSeq(columns, LAMBDA c : c.is_target) IN
    IF targets = <<>> THEN NULL ELSE targets[1].name

\* line 52 without the test c.name != target_col
FeatureColsKeepsTarget(columns) ==
    LET features == SelectSeq(columns, LAMBDA c : c.is_feature)
    IN [i \in 1..Len(features) |-> features[i].name]

\* line 52
FeatureCols(columns) ==
    LET target_col == TargetCol(columns)
        features == SelectSeq(columns, LAMBDA c : c.is_feature /\ c.name # target_col)
    IN [i \in 1..Len(features) |-> features[i].name]

Range(seq) == {seq[i] : i \in 1..Len(seq)}

\* the column checks without the check of line 53
ValidationErrorNoFeatureCheck(columns) ==
    IF TargetCol(columns) = NULL THEN "No target column specified" ELSE NULL

\* lines 47-54: the exception the column checks raise, NULL when they pass
ValidationError(columns) ==
    IF TargetCol(columns) = NULL THEN "No target column specified"
    ELSE IF FeatureCols(columns) = <<>> THEN "No feature columns specified"
    ELSE NULL

\* lines 47-64: column checks, df[feature_cols] and df[target_col] (KeyError on a
\* column the table lacks), train_test_split (raises on a table with too few rows;
\* rows are not modelled, so either outcome), then the checkpoint
ValidateAndSplit(j) ==
    /\ response' = NoResponse
    /\ pc[j] = "L48"
    /\ LET columns == requests[j].columns IN
       IF ValidationError(columns) # NULL
       THEN Raise(j, ValidationError(columns)) /\ UNCHANGED training_jobs
       ELSE IF ~ (Range(FeatureCols(columns)) \cup {TargetCol(columns)} \subseteq local[j].df)
       THEN Raise(j, "KeyError") /\ UNCHANGED training_jobs
       ELSE \/ Raise(j, "library error") /\ UNCHANGED training_jobs
            \/ SetProgress(j, "L64") /\ Goto(j, "L67") /\ UNCHANGED local
    /\ UNCHANGED <<requests, models_dir, datasets_dir, uploads>>

\* a builder that falls back to the classifier for the model types without one
BuildErrorFallsBack(request) ==
    IF request.config_ok THEN NULL ELSE "unexpected keyword argument"

\* lines 92-103: the estimator constructor raises TypeError on a training_config it
\* does not accept; any other model type raises ValueError
BuildError(request) ==
    IF request.model_type \in {"classification", "regression"}
    THEN IF request.config_ok THEN NULL ELSE "unexpected keyword argument"
    ELSE "Unsupported model type: " \o request.model_type

\* lines 66-105
BuildPipeline(j) ==
    /\ response' = NoResponse
    /\ pc[j] = "L67"
    /\ IF BuildError(requests[j]) # NULL
       THEN Raise(j, BuildError(requests[j])) /\ UNCHANGED training_jobs
       ELSE SetProgress(j, "L105") /\ Goto(j, "L109") /\ UNCHANGED local
    /\ UNCHANGED <<requests, models_dir, datasets_dir, uploads>>

\* a model.fit that never returns: the task stays at line 109
FitHangs(j) ==
    /\ response' = NoResponse
    /\ pc[j] = "L109"
    /\ UNCHANGED <<training_jobs, requests, pc, local, models_dir, datasets_dir, uploads>>

\* lines 108-112: model.fit raises or returns
Fit(j) ==
    /\ response' = NoResponse
    /\ pc[j] = "L109"
    /\ \/ Raise(j, "library error") /\ UNCHANGED training_jobs
       \/ SetProgress(j, "L112") /\ Goto(j, "L115") /\ UNCHANGED local
    /\ UNCHANGED <<requests, models_dir, datasets_dir, uploads>>

\* lines 118-126: the keys of the metrics dict
Metrics(model_type) ==
    IF model_type = "classification" THEN {"accuracy", "precision", "recall", "f1"}
    ELSE IF model_type = "regression" THEN {"r2_score", "mse", "rmse"}
    ELSE {}

\* lines 114-128: model.predict and the metric functions raise or return
Evaluate(j) ==
    /\ response' = NoResponse
    /\ pc[j] = "L115"
    /\ \/ Raise(j, "library error") /\ UNCHANGED training_jobs
       \/ /\ local' = [local EXCEPT ![j].metrics = Metrics(requests[j].model_type)]
          /\ SetProgress(j, "L128")
          /\ Goto(j, "L138")
    /\ UNCHANGED <<requests, models_dir, datasets_dir, uploads>>

\* lines 130-142: a fresh model id, then joblib.dump writes the model file or raises
\* OSError
SaveModel(j) ==
    /\ response' = NoResponse
    /\ pc[j] = "L138"
    /\ LET model_id == ModelUuid(j)
           tenant_id == requests[j].tenant_id
       IN \/ /\ local' = [local EXCEPT ![j].model_id = model_id, ![j].exc = "OSError"]
             /\ Goto(j, "L179")
             /\ UNCHANGED models_dir
          \/ /\ local' = [local EXCEPT ![j].model_id = model_id]
             /\ models_dir' = WriteFile(models_dir, ModelPath(tenant_id, model_id),
                                        [kind |-> "model", tenant_id |-> tenant_id,
                                         model_id |-> model_id])
             /\ Goto(j, "L161")
    /\ UNCHANGED <<training_jobs, requests, datasets_dir, uploads>>

\* a task that goes on to publish without having written the metadata file
SaveMetadataSkipped(j) ==
    /\ response' = NoResponse
    /\ pc[j] = "L161"
    /\ Goto(j, "L169")
    /\ UNCHANGED <<training_jobs, requests, local, models_dir, datasets_dir, uploads>>

\* lines 144-167: os.path.getsize(model_path), then open(metadata_path, 'w') and
\* json.dump write the metadata file or raise OSError
SaveMetadata(j) ==
    /\ response' = NoResponse
    /\ pc[j] = "L161"
    /\ LET model_id == local[j].model_id
           tenant_id == requests[j].tenant_id
       IN IF ~ Exists(models_dir, ModelPath(tenant_id, model_id))
          THEN Raise(j, "No such file or directory") /\ UNCHANGED models_dir
          ELSE \/ Raise(j, "OSError") /\ UNCHANGED models_dir
               \/ /\ models_dir' = WriteFile(models_dir, ModelMetadataPath(tenant_id, model_id),
                                             [kind |-> "metadata", tenant_id |-> tenant_id,
                                              model_id |-> model_id,
                                              metrics |-> local[j].metrics])
                  /\ Goto(j, "L169")
                  /\ UNCHANGED local
    /\ UNCHANGED <<training_jobs, requests, datasets_dir, uploads>>

\* line 169 followed by a statement that raises: progress 1.0, then the handler
Progress169ThenRaises(j) ==
    /\ response' = NoResponse
    /\ pc[j] = "L169"
    /\ SetProgress(j, "L169")
    /\ Raise(j, "OSError")
    /\ UNCHANGED <<requests, models_dir, datasets_dir, uploads>>

\* line 169
Progress169(j) ==
    /\ response' = NoResponse
    /\ pc[j] = "L169"
    /\ SetProgress(j, "L169")
    /\ Goto(j, "L170")
    /\ UNCHANGED <<requests, local, models_dir, datasets_dir, uploads>>

\* line 172 written where line 170 is: the model id is published before the status
SetCompletedSwapped(j) ==
    /\ response' = NoResponse
    /\ pc[j] = "L170"
    /\ SetField(j, "model_id", local[j].model_id)
    /\ Goto(j, "L171")
    /\ UNCHANGED <<requests, local, models_dir, datasets_dir, uploads>>

\* line 170
SetCompleted(j) ==
    /\ response' = NoResponse
    /\ pc[j] = "L170"
    /\ SetField(j, "status", "completed")
    /\ Goto(j, "L171")
    /\ UNCHANGED <<requests, local, models_dir, datasets_dir, uploads>>

\* line 171
SetEndTime(j) ==
    /\ response' = NoResponse
    /\ pc[j] = "L171"
    /\ SetField(j, "end_time", "now")
    /\ Goto(j, "L172")
    /\ UNCHANGED <<requests, local, models_dir, datasets_dir, uploads>>

\* line 172
SetModelId(j) ==
    /\ response' = NoResponse
    /\ pc[j] = "L172"
    /\ SetField(j, "model_id", local[j].model_id)
    /\ Goto(j, "L173")
    /\ UNCHANGED <<requests, local, models_dir, datasets_dir, uploads>>

\* line 173
SetMetrics(j) ==
    /\ response' = NoResponse
    /\ pc[j] = "L173"
    /\ SetField(j, "metrics", local[j].metrics)
    /\ Goto(j, "done")
    /\ UNCHANGED <<requests, local, models_dir, datasets_dir, uploads>>

\* line 179, in the handler of "except Exception"
SetFailed(j) ==
    /\ response' = NoResponse
    /\ pc[j] = "L179"
    /\ SetField(j, "status", "failed")
    /\ Goto(j, "L180")
    /\ UNCHANGED <<requests, local, models_dir, datasets_dir, uploads>>

\* line 180
SetFailedEndTime(j) ==
    /\ response' = NoResponse
    /\ pc[j] = "L180"
    /\ SetField(j, "end_time", "now")
    /\ Goto(j, "L181")
    /\ UNCHANGED <<requests, local, models_dir, datasets_dir, uploads>>

\* line 181: error_message = str(e)
SetErrorMessage(j) ==
    /\ response' = NoResponse
    /\ pc[j] = "L181"
    /\ SetField(j, "error_message", local[j].exc)
    /\ Goto(j, "done")
    /\ UNCHANGED <<requests, local, models_dir, datasets_dir, uploads>>

(* ------------------- data_service.py: the dataset store ---------------- *)
\* the extensions of uploaded file names: the two parsed ones and another
Extensions == {".csv", ".xlsx", ".txt"}

\* process_uploaded_dataset, lines 24-102, called by POST /upload-dataset
\* (main.py 152-164, which turns the ValueError of line 37 into a 500)
upload_dataset(tenant_id, extension, columns) ==
    /\ uploads < MaxUploads
    /\ uploads' = uploads + 1
    /\ LET dataset_id == DatasetUuid(uploads + 1) IN
       IF extension \notin {".csv", ".xls", ".xlsx"}
       THEN /\ response' = [op |-> "upload", tenant_id |-> tenant_id, code |-> 500]
            /\ UNCHANGED datasets_dir
       ELSE /\ datasets_dir' =
                 WriteFile(WriteFile(datasets_dir, DatasetPath(tenant_id, dataset_id),
                                     [kind |-> "dataset", tenant_id |-> tenant_id,
                                      dataset_id |-> dataset_id, columns |-> columns]),
                           DatasetMetadataPath(tenant_id, dataset_id),
                           [kind |-> "metadata", tenant_id |-> tenant_id,
                            dataset_id |-> dataset_id, columns |-> columns])
            /\ response' = [op |-> "upload", tenant_id |-> tenant_id, code |-> 200,
                            dataset_id |-> dataset_id]
    /\ UNCHANGED <<training_jobs, requests, pc, local, models_dir>>

\* the outcomes of a delete that returned True as soon as the first remove succeeded
RemoveOutcomesEarlyTrue(dir, data_path, metadata_path) ==
    { [dir |-> RemoveFile(RemoveFile(dir, data_path), metadata_path), result |-> TRUE],
      [dir |-> dir, result |-> FALSE],
      [dir |-> RemoveFile(dir, data_path), result |-> TRUE] }

\* what the two os.remove calls of delete_dataset / delete_model (lines 237-239,
\* ml_service.py 225-228) leave of the directory and return: both removed and True,
\* or an OSError at the first or at the second remove and False
RemoveOutcomes(dir, data_path, metadata_path) ==
    { [dir |-> RemoveFile(RemoveFile(dir, data_path), metadata_path), result |-> TRUE],
      [dir |-> dir, result |-> FALSE],
      [dir |-> RemoveFile(dir, data_path), result |-> FALSE] }

\* the tenants the removed files were written for
Removed(dir, after) == {dir[p].tenant_id : p \in DOMAIN dir \ DOMAIN after}

\* delete_dataset, lines 229-243
delete_dataset(dataset_id, tenant_id) ==
    LET dataset_path == DatasetPath(tenant_id, dataset_id)
        metadata_path == DatasetMetadataPath(tenant_id, dataset_id)
    IN /\ IF ~ Exists(datasets_dir, dataset_path) \/ ~ Exists(datasets_dir, metadata_path)
          THEN /\ response' = [op |-> "delete_dataset", result |-> "FileNotFoundError"]
               /\ UNCHANGED datasets_dir
          ELSE \E out \in RemoveOutcomes(datasets_dir, dataset_path, metadata_path) :
               /\ datasets_dir' = out.dir
               /\ response' = [op |-> "delete_dataset", tenant_id |-> tenant_id,
                               id |-> dataset_id, result |-> out.result,
                               resolved |-> Removed(datasets_dir, out.dir)]
       /\ UNCHANGED <<training_jobs, requests, pc, local, models_dir, uploads>>

(* -------------------- ml_service.py: the model store ------------------- *)
\* MLService.delete_model, lines 217-231, behind DELETE /models/{model_id}
\* (main.py 215-232): FileNotFoundError becomes 404, the boolean becomes "success"
delete_model(model_id, tenant_id) ==
    LET model_path == ModelPath(tenant_id, model_id)
        metadata_path == ModelMetadataPath(tenant_id, model_id)
    IN /\ IF ~ Exists(models_dir, model_path) \/ ~ Exists(models_dir, metadata_path)
          THEN /\ response' = [op |-> "delete_model", code |-> 404]
               /\ UNCHANGED models_dir
          ELSE \E out \in RemoveOutcomes(models_dir, model_path, metadata_path) :
               /\ models_dir' = out.dir
               /\ response' = [op |-> "delete_model", code |-> 200, tenant_id |-> tenant_id,
                               id |-> model_id, result |-> out.result,
                               resolved |-> Removed(models_dir, out.dir)]
       /\ UNCHANGED <<training_jobs, requests, pc, local, datasets_dir, uploads>>

\* the handlers below change neither the job table nor a directory
ReadOnly == UNCHANGED <<training_jobs, requests, pc, local, models_dir, datasets_dir, uploads>>

\* the tenant a file was written for, as a set: empty when the path does not exist
Resolved(dir, path) == IF Exists(dir, path) THEN {dir[path].tenant_id} ELSE {}

\* POST /predict (main.py 123-150) and MLService.predict (lines 183-194):
\* joblib.load of the model file, then model.predict raises (500) or returns
predict(auth, tenant_id, model_id) ==
    /\ IF tenant_id # auth
       THEN response' = [op |-> "predict", code |-> 403]
       ELSE LET model_path == ModelPath(auth, model_id) IN
            IF ~ Exists(models_dir, model_path)
            THEN response' = [op |-> "predict", code |-> 404]
            ELSE \E code \in {200, 500} :
                 response' = [op |-> "predict", code |-> code, tenant_id |-> auth,
                              id |-> model_id, resolved |-> Resolved(models_dir, model_path)]
    /\ ReadOnly

\* MLService.list_models, lines 196-205: the metadata files the prefix and suffix
\* tests select
ListedFiles(tenant_id) ==
    {f \in DOMAIN models_dir :
        StartsWith(f, tenant_id \o <<"_">>) /\ EndsWith(f, MetadataSuffix)}

\* GET /models (main.py 186-196)
list_models(tenant_id) ==
    /\ response' = [op |-> "list_models", code |-> 200, tenant_id |-> tenant_id,
                    models |-> {[tenant_id |-> models_dir[f].tenant_id,
                                 model_id |-> models_dir[f].model_id] :
                                f \in ListedFiles(tenant_id)}]
    /\ ReadOnly

\* GET /models/{model_id} (main.py 198-213) and MLService.get_model_info (lines
\* 207-215): the HTTPException(404) of line 207 is raised inside the try block and
\* caught by "except Exception" at line 211, which answers 500
get_model(model_id, tenant_id) ==
    /\ LET metadata_path == ModelMetadataPath(tenant_id, model_id) IN
       IF ~ Exists(models_dir, metadata_path)
       THEN response' = [op |-> "get_model", code |-> 500]
       ELSE response' = [op |-> "get_model", code |-> 200, tenant_id |-> tenant_id,
                         id |-> model_id, resolved |-> Resolved(models_dir, metadata_path)]
    /\ ReadOnly

\* the operation names analyze_dataset looks for in request.operations
KnownOperations == {"summary", "correlation", "missing_values", "outliers", "distributions"}

\* values of request.operations (models.py 90-93; a list, read only with "in"): none,
\* each known name alone, the default, all known names, and lists with an unknown
\* name
OperationSets ==
    {{}, {"summary", "correlation", "missing_values"}, KnownOperations,
     {"bogus"}, {"correlation", "bogus"}}
    \cup {{o} : o \in KnownOperations}

\* an AnalysisResult in which the "summary" test also fills correlation
AnalysisResultFillsTwo(operations) ==
    [summary |-> IF "summary" \in operations THEN "computed" ELSE NULL,
     correlation |-> IF "summary" \in operations \/ "correlation" \in operations
                     THEN "computed" ELSE NULL,
     missing_values |-> IF "missing_values" \in operations THEN "computed" ELSE NULL,
     outliers |-> IF "outliers" \in operations THEN "computed" ELSE NULL,
     distributions |-> IF "distributions" \in operations THEN "computed" ELSE NULL,
     custom |-> NULL]

\* the AnalysisResult (models.py 95-101, every field None) after the five
\* "if <name> in request.operations" blocks of lines 116-189, each of which assigns
\* its own field a dict (possibly an empty one); nothing assigns "custom"
AnalysisResult(operations) ==
    [summary |-> IF "summary" \in operations THEN "computed" ELSE NULL,
     correlation |-> IF "correlation" \in operations THEN "computed" ELSE NULL,
     missing_values |-> IF "missing_values" \in operations THEN "computed" ELSE NULL,
     outliers |-> IF "outliers" \in operations THEN "computed" ELSE NULL,
     distributions |-> IF "distributions" \in operations THEN "computed" ELSE NULL,
     custom |-> NULL]

\* POST /analyze-dataset (main.py 166-184) and DataService.analyze_dataset
\* (lines 104-191), which reads the table of (request.tenant_id, request.dataset_id);
\* a pandas or numpy call of a requested block may raise, or the result may fail to
\* serialize (a NaN skewness), which answers 500
analyze_dataset(auth, tenant_id, dataset_id, operations) ==
    /\ IF tenant_id # auth
       THEN response' = [op |-> "analyze_dataset", code |-> 403]
       ELSE LET dataset_path == DatasetPath(tenant_id, dataset_id) IN
            IF ~ Exists(datasets_dir, dataset_path)
            THEN response' = [op |-> "analyze_dataset", code |-> 404]
            ELSE \/ response' = [op |-> "analyze_dataset", code |-> 200,
                                 tenant_id |-> tenant_id, id |-> dataset_id,
                                 resolved |-> Resolved(datasets_dir, dataset_path),
                                 operations |-> operations,
                                 result |-> AnalysisResult(operations)]
                 \/ /\ operations \cap KnownOperations # {}
                    /\ response' = [op |-> "analyze_dataset", code |-> 500,
                                    operations |-> operations]
    /\ ReadOnly

\* DataService.get_dataset_info, lines 193-201
get_dataset_info(dataset_id, tenant_id) ==
    /\ LET metadata_path == DatasetMetadataPath(tenant_id, dataset_id) IN
       IF ~ Exists(datasets_dir, metadata_path)
       THEN response' = [op |-> "get_dataset_info", result |-> "FileNotFoundError"]
       ELSE response' = [op |-> "get_dataset_info", result |-> "metadata",
                         tenant_id |-> tenant_id, id |-> dataset_id,
                         resolved |-> Resolved(datasets_dir, metadata_path)]
    /\ ReadOnly

\* DataService.get_column_values, lines 203-227: read_csv(usecols=[column_name])
\* raises ValueError on a column the table lacks
get_column_values(dataset_id, tenant_id, column_name) ==
    /\ LET dataset_path == DatasetPath(tenant_id, dataset_id) IN
       IF ~ Exists(datasets_dir, dataset_path)
       THEN response' = [op |-> "get_column_values", result |-> "FileNotFoundError"]
       ELSE IF column_name \notin datasets_dir[dataset_path].columns
       THEN response' = [op |-> "get_column_values", result |-> "ValueError"]
       ELSE response' = [op |-> "get_column_values", result |-> "values",
                         tenant_id |-> tenant_id, id |-> dataset_id,
                         resolved |-> Resolved(datasets_dir, dataset_path)]
    /\ ReadOnly

\* get_training_status without the ownership test of lines 117-119
get_training_statusNoOwnerCheck(job_id, tenant_id) ==
    /\ IF job_id \notin Jobs
       THEN response' = [op |-> "training_status", code |-> 404]
       ELSE response' = [op |-> "training_status", code |-> 200, caller |-> tenant_id,
                         job |-> training_jobs[job_id]]
    /\ ReadOnly

\* GET /training-status/{job_id} (main.py 106-121)
get_training_status(job_id, tenant_id) ==
    /\ IF job_id \notin Jobs
       THEN response' = [op |-> "training_status", code |-> 404]
       ELSE IF training_jobs[job_id].tenant_id # tenant_id
       THEN response' = [op |-> "training_status", code |-> 403]
       ELSE response' = [op |-> "training_status", code |-> 200, caller |-> tenant_id,
                         job |-> training_jobs[job_id]]
    /\ ReadOnly

(* ------------------------------- Next --------------------------------- *)
\* the handlers that write the job table or a directory, and the background tasks
Next ==
    \/ \E auth \in Tenants, request \in TrainingRequests : train_model(auth, request)
    \/ \E j \in Jobs : SetInProgress(j)
    \/ \E j \in Jobs : Progress37(j)
    \/ \E j \in Jobs : CheckDataset(j)
    \/ \E j \in Jobs : ReadDataset(j)
    \/ \E j \in Jobs : Progress45(j)
    \/ \E j \in Jobs : ValidateAndSplit(j)
    \/ \E j \in Jobs : BuildPipeline(j)
    \/ \E j \in Jobs : Fit(j)
    \/ \E j \in Jobs : Evaluate(j)
    \/ \E j \in Jobs : SaveModel(j)
    \/ \E j \in Jobs : SaveMetadata(j)
    \/ \E j \in Jobs : Progress169(j)
    \/ \E j \in Jobs : SetCompleted(j)
    \/ \E j \in Jobs : SetEndTime(j)
    \/ \E j \in Jobs : SetModelId(j)
    \/ \E j \in Jobs : SetMetrics(j)
    \/ \E j \in Jobs : SetFailed(j)
    \/ \E j \in Jobs : SetFailedEndTime(j)
    \/ \E j \in Jobs : SetErrorMessage(j)
    \/ \E t \in Tenants, e \in Extensions, c \in DatasetContents : upload_dataset(t, e, c)
    \/ \E t \in Tenants, id \in DatasetIds : delete_dataset(id, t)
    \/ \E t \in Tenants, id \in ModelIds : delete_model(id, t)

Spec == Init /\ [][Next]_vars

\* the same with the handlers that only read
ApiNext ==
    \/ Next
    \/ \E auth \in Tenants, t \in Tenants, id \in ModelIds : predict(auth, t, id)
    \/ \E t \in Tenants : list_models(t)
    \/ \E t \in Tenants, id \in ModelIds : get_model(id, t)
    \/ \E auth \in Tenants, t \in Tenants, id \in DatasetIds, ops \in OperationSets :
          analyze_dataset(auth, t, id, ops)
    \/ \E t \in Tenants, id \in DatasetIds : get_dataset_info(id, t)
    \/ \E t \in Tenants, id \in DatasetIds, c \in {"x", "z"} : get_column_values(id, t, c)
    \/ \E t \in Tenants, job_id \in 1..(MaxJobs + 1) : get_training_status(job_id, t)

ApiSpec == Init /\ [][ApiNext]_vars

\* the next step of the background task of job j: BackgroundTasks runs
\* train_model_task(request, job_id, training_jobs) once the response of POST /train
\* is sent (main.py 91-96), and the task runs from line 36 to its last assignment
Task(j) ==
    /\ j \in Jobs
    /\ \/ SetInProgress(j) \/ Progress37(j) \/ CheckDataset(j) \/ ReadDataset(j)
       \/ Progress45(j) \/ ValidateAndSplit(j) \/ BuildPipeline(j) \/ Fit(j)
       \/ Evaluate(j) \/ SaveModel(j) \/ SaveMetadata(j) \/ Progress169(j)
       \/ SetCompleted(j) \/ SetEndTime(j) \/ SetModelId(j) \/ SetMetrics(j)
       \/ SetFailed(j) \/ SetFailedEndTime(j) \/ SetErrorMessage(j)

\* the writing handlers, the tasks and the polls of GET /training-status
PollNext ==
    \/ Next
    \/ \E t \in Tenants, job_id \in 1..(MaxJobs + 1) : get_training_status(job_id, t)

\* every queued task is started and every started task is run on: the event loop
\* runs each background task it was given (every step of a task moves its pc)
FairSpec == Init /\ [][PollNext]_vars /\ \A j \in 1..MaxJobs : WF_pc(Task(j))

\* the submissions of the specification of concurrent jobs: the well-formed body,
\* under either tenant
ConcurrentRequests == {[tenant_id |-> t] @@ BaseBody : t \in Tenants}

\* several jobs at once: submissions (accepted or refused), the steps of their
\* tasks in any interleaving, the upload of the dataset they name, and polls
ConcurrentNext ==
    \/ \E auth \in Tenants, request \in ConcurrentRequests :
          train_model_within(MaxConcurrentJobs, auth, request)
    \/ \E j \in Jobs : SetInProgress(j)
    \/ \E j \in Jobs : Progress37(j)
    \/ \E j \in Jobs : CheckDataset(j)
    \/ \E j \in Jobs : ReadDataset(j)
    \/ \E j \in Jobs : Progress45(j)
    \/ \E j \in Jobs : ValidateAndSplit(j)
    \/ \E j \in Jobs : BuildPipeline(j)
    \/ \E j \in Jobs : Fit(j)
    \/ \E j \in Jobs : Evaluate(j)
    \/ \E j \in Jobs : SaveModel(j)
    \/ \E j \in Jobs : SaveMetadata(j)
    \/ \E j \in Jobs : Progress169(j)
    \/ \E j \in Jobs : SetCompleted(j)
    \/ \E j \in Jobs : SetEndTime(j)
    \/ \E j \in Jobs : SetModelId(j)
    \/ \E j \in Jobs : SetMetrics(j)
    \/ \E j \in Jobs : SetFailed(j)
    \/ \E j \in Jobs : SetFailedEndTime(j)
    \/ \E j \in Jobs : SetErrorMessage(j)
    \/ \E t \in Tenants : upload_dataset(t, ".csv", {"x", "y"})
    \/ \E t \in Tenants, job_id \in 1..(MaxConcurrentJobs + 1) : get_training_status(job_id, t)

ConcurrentSpec == Init /\ [][ConcurrentNext]_vars

(* ------------------------------ properties ---------------------------- *)
Terminal == {"completed", "failed"}

\* C1: the status of a job changes only queued -> in_progress, in_progress ->
\* completed and in_progress -> failed; a job record is created queued and stays in
\* the table, and a completed or failed job never changes status again.
StatusTransitions ==
    [][ /\ Len(training_jobs') >= Len(training_jobs)
        /\ \A j \in 1..Len(training_jobs') :
              IF j \in Jobs
              THEN \/ training_jobs'[j].status = training_jobs[j].status
                   \/ <<training_jobs[j].status, training_jobs'[j].status>> \in
                         {<<"queued", "in_progress">>, <<"in_progress", "completed">>,
                          <<"in_progress", "failed">>}
              ELSE training_jobs'[j].status = "queued" ]_vars

\* C1 witness: a task has run to its end and its job is completed
CompletedJobReached ==
    \E j \in Jobs : pc[j] = "done" /\ training_jobs[j].status = "completed"

\* C2: the progress of a job never decreases from one state to the next and is
\* always within [0.0, 1.0] (0..10 tenths), on the failure path too.
ProgressMonotone ==
    [][ \A j \in 1..Len(training_jobs') :
            /\ training_jobs'[j].progress \in 0..10
            /\ j \in Jobs => training_jobs'[j].progress >= training_jobs[j].progress ]_vars

\* C2 witness: a job that failed after the evaluation checkpoint keeps progress 0.8
FailedJobKeepsProgress ==
    \E j \in Jobs : /\ pc[j] = "done" /\ training_jobs[j].status = "failed"
                    /\ training_jobs[j].progress = 8

\* C3: in every state a poll can observe, a completed or failed job has end_time
\* set.
TerminalHasEndTime ==
    \A j \in Jobs : training_jobs[j].status \in Terminal => training_jobs[j].end_time # NULL

\* the files of the model store that the run of job j wrote
WrittenBy(j) == {f \in DOMAIN models_dir : models_dir[f].model_id = ModelUuid(j)}

\* C4: a run that ends failed leaves no model file and no metadata file of its own
\* in the store.
FailedRunLeavesNothing ==
    \A j \in Jobs : training_jobs[j].status = "failed" => WrittenBy(j) = {}

\* C5: once a task that raised has ended, its job is failed with error_message and
\* end_time set; the step that raises, like every step of a task, sends no
\* response, and the response to an accepted submission is the queued response.
ExceptionsCaught ==
    /\ [](\A j \in Jobs : (pc[j] = "done" /\ local[j].exc # NULL) =>
             /\ training_jobs[j].status = "failed"
             /\ training_jobs[j].error_message # NULL
             /\ training_jobs[j].end_time # NULL)
    /\ [][ /\ (\E j \in Jobs : local'[j].exc # local[j].exc) => response' = NoResponse
           /\ Len(training_jobs') > Len(training_jobs) =>
                 /\ response'.code = 200 /\ response'.status = "queued"
                 /\ response'.training_job_id = Len(training_jobs') ]_vars

\* C5 witness: a task raised, ran its handler and ended
RaisedTaskEnded ==
    \E j \in Jobs : pc[j] = "done" /\ local[j].exc # NULL /\ training_jobs[j].status = "failed"

\* a schema with no is_target entry, or with no is_feature entry named otherwise
\* than its target (the first is_target entry)
NoTarget(columns) == \A i \in DOMAIN columns : ~ columns[i].is_target

NoOtherFeature(columns) ==
    LET first == CHOOSE i \in DOMAIN columns :
                    columns[i].is_target /\ \A k \in 1..(i - 1) : ~ columns[k].is_target
    IN \A i \in DOMAIN columns : columns[i].is_feature => columns[i].name = columns[first].name

LacksTargetOrFeature(columns) == NoTarget(columns) \/ NoOtherFeature(columns)

\* C6: a request (tenant matching) whose schema has no target, or no feature other
\* than the target, is accepted with a queued job whenever a job can be created, and
\* its job is never completed and ends failed with a populated error_message.
InvalidSchemaFails ==
    /\ \A r \in TrainingRequests :
          (LacksTargetOrFeature(r.columns) /\ Len(training_jobs) < MaxJobs) =>
             ENABLED (/\ train_model(r.tenant_id, r)
                      /\ Len(training_jobs') = Len(training_jobs) + 1
                      /\ training_jobs'[Len(training_jobs')].status = "queued"
                      /\ response'.code = 200 /\ response'.status = "queued")
    /\ \A j \in Jobs : LacksTargetOrFeature(requests[j].columns) =>
          /\ training_jobs[j].status # "completed"
          /\ pc[j] = "done" => /\ training_jobs[j].status = "failed"
                               /\ training_jobs[j].error_message \notin {NULL, ""}

\* C6 witness: the feature check of lines 52-54 failed a job
SchemaFailedJob ==
    \E j \in Jobs : /\ pc[j] = "done" /\ training_jobs[j].status = "failed"
                    /\ LacksTargetOrFeature(requests[j].columns)
                    /\ training_jobs[j].error_message = "No feature columns specified"

\* the number of is_target entries of a schema
TargetCount(columns) == Len(SelectSeq(columns, LAMBDA c : c.is_target))

\* C7: a request whose schema declares two or more target columns never has its job
\* completed.
TwoTargetsNeverComplete ==
    \A j \in Jobs : TargetCount(requests[j].columns) >= 2 =>
        training_jobs[j].status # "completed"

\* the messages of the exceptions of lines 42, 50 and 54
PreconditionErrors ==
    {"Dataset not found", "No target column specified", "No feature columns specified"}

\* C8: a job failed by a validation precondition (dataset absent, no target, no
\* feature) still has the initial progress 0.0.
PreconditionFailureKeepsZero ==
    \A j \in Jobs : (training_jobs[j].status = "failed" /\ local[j].exc \in PreconditionErrors)
        => training_jobs[j].progress = 0

\* C9: an id-keyed operation under one tenant never reads or removes a file that
\* was written for another tenant.
NoCrossTenantResolve ==
    "resolved" \in DOMAIN response => response.resolved \subseteq {response.tenant_id}

\* C10: list_models(tenant) returns only models whose metadata was written for that
\* tenant.
ListOnlyOwnModels ==
    response.op = "list_models" =>
        \A m \in response.models : m.tenant_id = response.tenant_id

\* C11: a poll of an existing job under a tenant other than its creator answers 403
\* and carries no field of the job, a poll of an id that is not in the job table
\* answers 404, a poll that answers 200 is the creator's, and no poll changes the job
\* table.
OwnerOnlyPoll ==
    [][ \A job_id \in 1..(MaxJobs + 1), t \in Tenants :
            get_training_status(job_id, t) =>
                /\ training_jobs' = training_jobs
                /\ job_id \notin Jobs => response'.code = 404
                /\ (job_id \in Jobs /\ training_jobs[job_id].tenant_id # t) =>
                       /\ response'.code = 403
                       /\ DOMAIN response' = {"op", "code"}
                /\ response'.code = 200 =>
                       /\ job_id \in Jobs /\ training_jobs[job_id].tenant_id = t
                       /\ response'.job = training_jobs[job_id] ]_vars

\* C11 witness: a job exists and the poll just answered was refused with 403
ForeignPollRefused ==
    /\ Len(training_jobs) >= 1
    /\ response.op = "training_status" /\ response.code = 403

\* a delete that found both files and returned False
DeleteReturnedFalse ==
    /\ response.op \in {"delete_dataset", "delete_model"}
    /\ "id" \in DOMAIN response
    /\ response.result = FALSE

\* C12: whenever delete_dataset or delete_model returns False, the data file and the
\* metadata file of the (tenant, id) both still exist.
FailedDeleteKeepsArtifact ==
    DeleteReturnedFalse =>
        IF response.op = "delete_dataset"
        THEN /\ Exists(datasets_dir, DatasetPath(response.tenant_id, response.id))
             /\ Exists(datasets_dir, DatasetMetadataPath(response.tenant_id, response.id))
        ELSE /\ Exists(models_dir, ModelPath(response.tenant_id, response.id))
             /\ Exists(models_dir, ModelMetadataPath(response.tenant_id, response.id))

\* what a delete of the pair (data_path, metadata_path) may do to a directory and
\* answer: not_found says the answer is the NotFound one, resp is the answer
DeleteOutcome(dir, after, data_path, metadata_path, not_found, resp) ==
    IF ~ Exists(dir, data_path) \/ ~ Exists(dir, metadata_path)
    THEN not_found /\ after = dir
    ELSE /\ ~ not_found
         /\ "id" \in DOMAIN resp /\ resp.result \in BOOLEAN
         /\ resp.result => (~ Exists(after, data_path) /\ ~ Exists(after, metadata_path))
         /\ DOMAIN dir \ DOMAIN after \subseteq {data_path, metadata_path}
         /\ \A p \in DOMAIN after : p \in DOMAIN dir /\ after[p] = dir[p]

\* C13: delete_dataset and delete_model answer NotFound and remove nothing when the
\* data file or the metadata file of the (tenant, id) is missing; when both exist
\* they return a boolean without raising, and True only with both files removed;
\* nothing but these two files is ever removed.
DeleteContract ==
    [][ /\ \A t \in Tenants, id \in DatasetIds :
              delete_dataset(id, t) =>
                 DeleteOutcome(datasets_dir, datasets_dir', DatasetPath(t, id),
                               DatasetMetadataPath(t, id),
                               "id" \notin DOMAIN response' /\
                                  response'.result = "FileNotFoundError", response')
        /\ \A t \in Tenants, id \in ModelIds :
              delete_model(id, t) =>
                 DeleteOutcome(models_dir, models_dir', ModelPath(t, id),
                               ModelMetadataPath(t, id),
                               response'.code = 404, response') ]_vars

\* C13 witness: a delete found only one of the two files (the other removed by an
\* earlier delete that failed half way) and answered NotFound
DeleteOfHalfRemoved ==
    /\ response.op = "delete_model" /\ response.code = 404
    /\ \E t \in Tenants, id \in ModelIds :
          ~ Exists(models_dir, ModelPath(t, id)) /\ Exists(models_dir, ModelMetadataPath(t, id))

\* neither file of the dataset (tenant, id) exists
DatasetGone(t, id) ==
    ~ Exists(datasets_dir, DatasetPath(t, id)) /\ ~ Exists(datasets_dir, DatasetMetadataPath(t, id))

\* the ids that process_uploaded_dataset has issued so far
IssuedDatasetIds == {DatasetUuid(k) : k \in 1..uploads}

\* every operation that looks up the dataset (t, id) answers not-found in this step
LookupsFail(t, id) ==
    /\ \A auth \in Tenants, ops \in OperationSets :
          analyze_dataset(auth, t, id, ops) => response'.code \in {403, 404}
    /\ \A ops \in OperationSets : analyze_dataset(t, t, id, ops) => response'.code = 404
    /\ get_dataset_info(id, t) => response'.result = "FileNotFoundError"
    /\ \A c \in {"x", "z"} : get_column_values(id, t, c) => response'.result = "FileNotFoundError"
    /\ delete_dataset(id, t) =>
          "id" \notin DOMAIN response' /\ response'.result = "FileNotFoundError"
    /\ \A j \in Jobs :
          (requests[j].tenant_id = t /\ requests[j].dataset_id = id
             /\ (CheckDataset(j) \/ ReadDataset(j))) =>
          /\ local'[j].exc \in {"Dataset not found", "No such file or directory"}
          /\ pc'[j] = "L179"

AbsentModelIs404 ==
    response.op = "get_model" => response.code \in {200, 404}

\* C16: a predict that is not refused with 403 answers 404 unless a training run of
\* the calling tenant persisted a serialized model under the requested id.
PredictNeverPersistedIs404 ==
    (response.op = "predict" /\ response.code # 403) =>
        \/ response.code = 404
        \/ \E j \in Jobs : /\ requests[j].tenant_id = response.tenant_id
                           /\ response.id = ModelUuid(j)

\* the model file and the metadata file of the run of job j are in the directory,
\* under the job's tenant and the run's model id, the metadata holding the metrics
\* the run computed
Persisted(dir, j) ==
    LET model_path == ModelPath(requests[j].tenant_id, ModelUuid(j))
        metadata_path == ModelMetadataPath(requests[j].tenant_id, ModelUuid(j))
    IN /\ Exists(dir, model_path) /\ Exists(dir, metadata_path)
       /\ dir[model_path].tenant_id = training_jobs[j].tenant_id
       /\ dir[metadata_path].tenant_id = training_jobs[j].tenant_id
       /\ dir[metadata_path].metrics = local[j].metrics

\* C17: whenever a job has status completed, the model file and the metadata file
\* exist in the store under the job's tenant and the run's model id, and once the
\* task has written all terminal fields the job's model_id is that id and its
\* metrics are those of the metadata file.
CompletedHasArtifacts ==
    \A j \in Jobs : training_jobs[j].status = "completed" =>
        /\ Persisted(models_dir, j)
        /\ pc[j] = "done" =>
              /\ training_jobs[j].model_id = ModelUuid(j)
              /\ training_jobs[j].metrics =
                    models_dir[ModelMetadataPath(requests[j].tenant_id, ModelUuid(j))].metrics

\* the positions of a task after the two writes of lines 141-167
AfterPersist == {"L169", "L170", "L171", "L172", "L173"}

\* C17 amended: a task reaches the lines that publish (169-173) only in a step that
\* leaves both files written under the job's tenant and a fresh model id, the status
\* becomes completed only at line 170, the files stay until a delete_model removes
\* them, and a job whose task ended completed has that model id and the metrics
\* written to the metadata.
PersistBeforePublish ==
    [][ \A j \in Jobs :
          /\ (pc[j] \notin AfterPersist /\ pc'[j] \in AfterPersist) =>
                /\ Persisted(models_dir', j)
                /\ ~ Exists(models_dir, ModelMetadataPath(requests[j].tenant_id, ModelUuid(j)))
          /\ training_jobs'[j].status = "completed" =>
                (training_jobs[j].status = "completed" \/ pc[j] = "L170")
          /\ (Persisted(models_dir, j) /\ response'.op # "delete_model") =>
                Persisted(models_dir', j)
          /\ (pc'[j] = "done" /\ training_jobs'[j].status = "completed") =>
                /\ training_jobs'[j].model_id = ModelUuid(j)
                /\ training_jobs'[j].metrics = local[j].metrics ]_vars

\* C17 witness: a task ended completed, its two files are in the store and the job
\* carries the model id and the metrics
CompletedWithArtifacts ==
    \E j \in Jobs : /\ pc[j] = "done" /\ training_jobs[j].status = "completed"
                    /\ Persisted(models_dir, j)
                    /\ training_jobs[j].model_id = ModelUuid(j)
                    /\ training_jobs[j].metrics # {}

\* no task is inside its run: train_model_task has no await, so on one event loop a
\* request is served only between tasks
NoTaskRunning == \A j \in Jobs : pc[j] \in {"queued", "done"}

\* C18: in every state a request can observe, the model file of a (tenant, model
\* id) exists exactly when its metadata file does (predict finds the model exactly
\* when get_model_info does), and a run whose files are in the store has a completed
\* job.
ModelFilesPaired ==
    NoTaskRunning =>
        /\ \A t \in Tenants, id \in ModelIds :
              Exists(models_dir, ModelPath(t, id)) <=> Exists(models_dir, ModelMetadataPath(t, id))
        /\ \A j \in Jobs : WrittenBy(j) # {} => training_jobs[j].status = "completed"

\* C19: under fair scheduling of its task every job of the table leaves queued and
\* reaches completed or failed with its task ended, whatever polls, uploads and
\* deletes happen meanwhile, and from then on keeps that one status.
JobTerminates ==
    /\ \A j \in 1..MaxJobs :
          (j \in Jobs) ~> (j \in Jobs /\ pc[j] = "done" /\ training_jobs[j].status \in Terminal)
    /\ [][ \A j \in Jobs : training_jobs[j].status \in Terminal =>
              training_jobs'[j].status = training_jobs[j].status ]_vars

\* C19 witness: the dataset of a job was deleted between the check of line 41 and
\* the read of line 44, and the job ended failed
FailedByDeleteWhileRunning ==
    \E j \in Jobs : /\ pc[j] = "done" /\ training_jobs[j].status = "failed"
                    /\ local[j].exc = "No such file or directory"
                    /\ training_jobs[j].progress = 1

\* the model_id of a job record is set: it holds a generated id, and not None
HasModelId(job) == job.model_id # NoModelId

\* C20: in every state of a job record, end_time is set only if the status is
\* completed or failed, model_id is set only if the status is completed, and
\* error_message is set only if the status is failed; no record has both a model_id
\* and an error_message.
TerminalFieldsGated ==
    \A j \in Jobs :
        LET job == training_jobs[j] IN
        /\ job.end_time # NULL => job.status \in Terminal
        /\ HasModelId(job) => job.status = "completed"
        /\ job.error_message # NULL => job.status = "failed"
        /\ ~ (HasModelId(job) /\ job.error_message # NULL)

\* C20 witness: a job record with status completed whose model_id has been written
\* (after line 172), and whose error_message is None
ModelIdWritten ==
    \E j \in Jobs : /\ pc[j] = "L173" /\ HasModelId(training_jobs[j])
                    /\ training_jobs[j].end_time # NULL
                    /\ training_jobs[j].error_message = NULL

\* C21: a training request whose dataset is absent for the tenant, or whose schema
\* has no target or no feature other than the target, is refused in the response
\* to POST /train: a submission answered "queued" (whose task is then scheduled)
\* names an existing dataset and a schema that passes the column checks.
SubmissionValidated ==
    (response.op = "train" /\ response.code = 200) =>
        LET request == requests[response.training_job_id] IN
        /\ Exists(datasets_dir, DatasetPath(request.tenant_id, request.dataset_id))
        /\ ~ LacksTargetOrFeature(request.columns)

\* C22: a POST /train whose body tenant differs from the authenticated tenant is
\* answered 403 and changes nothing: no job record is added, no task is scheduled,
\* and the model and dataset directories are unchanged.
RejectedSubmissionNoEffect ==
    [][ \A auth \in Tenants, request \in TrainingRequests :
            (train_model(auth, request) /\ request.tenant_id # auth) =>
                /\ response' = [op |-> "train", code |-> 403]
                /\ Len(training_jobs') = Len(training_jobs)
                /\ Len(requests') = Len(requests) /\ Len(pc') = Len(pc)
                /\ \A j \in Jobs : training_jobs'[j].status = training_jobs[j].status
                                   /\ pc'[j] = pc[j]
                /\ models_dir' = models_dir /\ datasets_dir' = datasets_dir ]_vars

\* C22 witness: a submission was just refused with 403, in a state with a dataset
\* in the store
SubmissionRefused ==
    /\ response.op = "train" /\ response.code = 403
    /\ datasets_dir # <<>>

\* the fields of an analysis result that hold a value
Populated(result) == {f \in DOMAIN result : result[f] # NULL}

\* C23: an analyze_dataset that answers populates exactly the fields named both in
\* the request and in {summary, correlation, missing_values, outliers,
\* distributions}; a request with no such name (empty, or only unknown names) is
\* answered without error and with every field absent, and a request of only
\* correlation populates only correlation.
AnalyzeExactFields ==
    (response.op = "analyze_dataset" /\ "operations" \in DOMAIN response) =>
        LET requested == response.operations \cap
                {"summary", "correlation", "missing_values", "outliers", "distributions"}
        IN /\ requested = {} => response.code = 200
           /\ response.code = 200 => Populated(response.result) = requested

\* C23 witness: a request of correlation and an unknown name was answered with only
\* the correlation field populated
OnlyCorrelationPopulated ==
    /\ response.op = "analyze_dataset" /\ response.code = 200
    /\ response.operations = {"correlation", "bogus"}
    /\ Populated(response.result) = {"correlation"}

\* the name of the target of a schema that has one: its first is_target entry
TargetName(columns) ==
    LET first == CHOOSE i \in DOMAIN columns :
                    columns[i].is_target /\ \A k \in 1..(i - 1) : ~ columns[k].is_target
    IN columns[first].name

\* C24: for every job whose schema has a target, the feature columns the run
\* selects (X = df[feature_cols], and the column lists of the preprocessor, which
\* are taken from feature_cols) do not contain the target's name, also when the
\* target entry is marked is_feature, and contain only names of is_feature entries.
FeaturesExcludeTarget ==
    \A j \in Jobs :
        LET columns == requests[j].columns
            features == Range(FeatureCols(columns))
        IN ~ NoTarget(columns) =>
              /\ TargetName(columns) \notin features
              /\ features \subseteq {columns[i].name : i \in {k \in DOMAIN columns :
                                                               columns[k].is_feature}}

\* C24 witness: a run whose target entry is also marked is_feature has built its
\* pipeline (progress 0.4) on a non-empty feature set
PipelineBuiltWithoutTarget ==
    \E j \in Jobs :
        LET columns == requests[j].columns IN
        /\ training_jobs[j].progress >= 4
        /\ \E i \in DOMAIN columns : columns[i].is_target /\ columns[i].is_feature
        /\ FeatureCols(columns) # <<>>

\* the model types of models.py 6-10 for which lines 92-103 build no pipeline
Unsupported == {"clustering", "custom"}

\* C25: a request of model type clustering or custom is accepted with a queued job
\* whenever a job can be created; its job is never completed, its run writes no
\* model file and no metadata file, it ends failed, and when the run got as far as
\* building the pipeline (past the split, progress 0.3) the error message is
\* "Unsupported model type: " followed by the type.
UnsupportedTypeFails ==
    /\ \A r \in TrainingRequests :
          (r.model_type \in Unsupported /\ Len(training_jobs) < MaxJobs) =>
             ENABLED (/\ train_model(r.tenant_id, r)
                      /\ Len(training_jobs') = Len(training_jobs) + 1
                      /\ pc'[Len(pc')] = "queued"
                      /\ response'.code = 200 /\ response'.status = "queued")
    /\ \A j \in Jobs : requests[j].model_type \in Unsupported =>
          /\ training_jobs[j].status # "completed"
          /\ WrittenBy(j) = {}
          /\ training_jobs[j].progress <= 3
          /\ pc[j] = "done" =>
                /\ training_jobs[j].status = "failed"
                /\ training_jobs[j].progress = 3 =>
                      training_jobs[j].error_message =
                         "Unsupported model type: " \o requests[j].model_type

\* C25 witness: a clustering job failed at the build of its pipeline
ClusteringJobFailed ==
    \E j \in Jobs : /\ requests[j].model_type = "clustering"
                    /\ pc[j] = "done" /\ training_jobs[j].status = "failed"
                    /\ training_jobs[j].error_message = "Unsupported model type: clustering"

\* the field f differs between the records old and new (model_id is None or an id)
FieldChanged(old, new, f) ==
    IF f = "model_id"
    THEN \/ HasModelId(old) # HasModelId(new)
         \/ HasModelId(old) /\ old.model_id # new.model_id
    ELSE old[f] # new[f]

ChangedFields(old, new) == {f \in DOMAIN old : FieldChanged(old, new, f)}

\* C26: once train_model has inserted the record of a job id, every step leaves the
\* entry in the table with the same keys; training_job_id, tenant_id and start_time
\* never change, and a step changes at most one field of a record (an assignment
\* to the record in place, never a new record), under any interleaving of the
\* tasks with submissions and polls.
RecordMutatedInPlace ==
    [][ /\ Len(training_jobs') >= Len(training_jobs)
        /\ \A j \in Jobs :
              /\ DOMAIN training_jobs'[j] = DOMAIN training_jobs[j]
              /\ ChangedFields(training_jobs[j], training_jobs'[j]) \cap
                    {"training_job_id", "tenant_id", "start_time"} = {}
              /\ Cardinality(ChangedFields(training_jobs[j], training_jobs'[j])) <= 1 ]_vars

\* C26 witness: the record of the first job, already completed, is still in the
\* table after a second submission whose task is running, and a poll just read it
FirstRecordKept ==
    /\ Len(training_jobs) = 2
    /\ pc[1] = "done" /\ training_jobs[1].status = "completed"
    /\ training_jobs[1].training_job_id = 1
    /\ pc[2] = "L109"
    /\ response.op = "training_status" /\ response.code = 200

\* the two paths the run of job j writes
OwnPaths(j) ==
    {ModelPath(requests[j].tenant_id, ModelUuid(j)),
     ModelMetadataPath(requests[j].tenant_id, ModelUuid(j))}

\* C27: a step of the task of job j (a step that moves the position of that task)
\* changes no record but that of j, adds no record,
\* leaves the datasets and every existing model file and metadata file as they
\* were, and creates files only at the paths of j's own model id, which did not
\* exist before; this for any interleaving of several running jobs.
JobsDoNotInterfere ==
    [][ \A j \in Jobs : pc'[j] # pc[j] =>
          /\ Len(training_jobs') = Len(training_jobs)
          /\ \A k \in Jobs \ {j} : ChangedFields(training_jobs[k], training_jobs'[k]) = {}
          /\ datasets_dir' = datasets_dir
          /\ \A p \in DOMAIN models_dir :
                p \in DOMAIN models_dir' /\ models_dir'[p] = models_dir[p]
          /\ DOMAIN models_dir' \ DOMAIN models_dir \subseteq OwnPaths(j)
          /\ (pc[j] \in {"L138", "L161"} /\ pc'[j] \in {"L161", "L169"}) =>
                DOMAIN models_dir' # DOMAIN models_dir
          /\ \A k \in Jobs \ {j} : OwnPaths(k) \cap OwnPaths(j) = {} ]_vars

\* C27 witness: two jobs of the same tenant have both written their files, the
\* second while the first was between its two writes had its model file in the
\* store: four files, and both tasks still running
TwoRunsPersisted ==
    /\ Len(training_jobs) = 2
    /\ requests[1].tenant_id = requests[2].tenant_id
    /\ pc[1] = "L169" /\ pc[2] = "L169"
    /\ Cardinality(DOMAIN models_dir) = 4

\* C28: in every state, with each field write a step of its own, a queued job has
\* progress 0.0, a completed job has progress 1.0, and a failed job does not have
\* progress 1.0.
StatusProgressCoupled ==
    \A j \in Jobs :
        /\ training_jobs[j].status = "queued" => training_jobs[j].progress = 0
        /\ training_jobs[j].status = "completed" => training_jobs[j].progress = 10
        /\ training_jobs[j].status = "failed" => training_jobs[j].progress # 10

\* C28 witness: between line 169 and line 170 a job has progress 1.0 and is still
\* in_progress
FullProgressBeforeCompleted ==
    \E j \in Jobs : /\ pc[j] = "L170"
                    /\ training_jobs[j].status = "in_progress"
                    /\ training_jobs[j].progress = 10

====
